---- MODULE Spec2Model ----
(***************************************************************************)
(* The two project.pbxproj patch scripts of fetcha-stream:                 *)
(*   add_build_phase.py         (the Permission-Fix Injector)              *)
(*   add_resources_to_xcode.py  (the Resource Bundler)                     *)
(*                                                                         *)
(* The project file is text.  It is modelled as a sequence of tokens, one  *)
(* per section marker, object record or other line; a list attribute of a  *)
(* record (children, files, buildPhases) is the sequence of the items      *)
(* between its parentheses: entries, commas and runs of whitespace.  A     *)
(* regular-expression search is a search over token positions, and         *)
(* str.replace replaces every occurrence, as in Python.  A name or a line  *)
(* of free text is atomic: a marker substring occurs in the file exactly   *)
(* when some token carries it.                                             *)
(***************************************************************************)
EXTENDS Naturals, Sequences, FiniteSets, TLC

VARIABLES
    proj,      \* content of project.pbxproj, or NoFile
    backup,    \* content of project.pbxproj.backup, or NoFile
    pc,        \* "idle", or "add_resources": the bundler between its backup and its patch
    last,      \* the script that ran last: "none", "injector", "bundler"
    outcome,   \* what the last finished run reported
    writes,    \* number of times project.pbxproj was opened for writing
    runs,      \* number of script runs started
    uuids      \* the identifiers the last finished run generated

vars == <<proj, backup, pc, last, outcome, writes, runs, uuids>>

---------------------------------------------------------------------------
(* Bounds *)

\* number of script runs in one behaviour
MaxRuns == 3
\* number of distinct outcomes of the random source per run
MaxSeeds == 2

---------------------------------------------------------------------------
(* Literals of the scripts *)

\* A file of the file system: absent, or present with a content.
NoFile == [exists |-> FALSE, content |-> <<>>]
File(content) == [exists |-> TRUE, content |-> content]

MarkerFix == "Fix Binary Permissions"
MarkerResBin == "Resources/bin"
MarkerResFolder == "Resources folder"

SecShell == "PBXShellScriptBuildPhase"
SecResPhase == "PBXResourcesBuildPhase"
SecFileRef == "PBXFileReference"
SecGroup == "PBXGroup"
SecBuildFile == "PBXBuildFile"

TargetId == "F8522F062E588C4300B30F2A"
TargetName == "yt-dlp-MAX"
ProjectId == "F8522EFE2E588C4300B30F2A"
ProjectName == "Project object"
ResPhaseId == "F8522F052E588C4300B30F2A"
ResPhaseName == "Resources"

---------------------------------------------------------------------------
(* Tokens of the text *)

BeginSection(sec) == [k |-> "begin", sec |-> sec]
EndSection(sec) == [k |-> "end", sec |-> sec]
\* The text  /\* End <sec> section */  with a backslash after the first slash.
EndSectionBackslash(sec) == [k |-> "end_backslash", sec |-> sec]
Text(s) == [k |-> "text", s |-> s]

Entry(id, name) == [t |-> "entry", id |-> id, name |-> name]
Comma == [t |-> "comma"]
WS == [t |-> "ws"]

ListFields == {"children", "files", "buildPhases"}

RECURSIVE SeqSum(_)
SeqSum(s) == IF s = <<>> THEN 0 ELSE Head(s) + SeqSum(Tail(s))

Range(s) == {s[i] : i \in 1..Len(s)}

Min(S) == CHOOSE x \in S : \A y \in S : x <= y

EntriesOf(list) == SelectSeq(list, LAMBDA it : it.t = "entry")

ListsOf(tok) == {tok[f] : f \in ListFields \cap DOMAIN tok}

\* The names and free text a token carries.
Names(tok) ==
    (IF "s" \in DOMAIN tok THEN {tok.s} ELSE {})
    \cup (IF "name" \in DOMAIN tok THEN {tok.name} ELSE {})
    \cup UNION {{e.name : e \in Range(EntriesOf(l))} : l \in ListsOf(tok)}

\* The identifiers a token carries.
Ids(tok) ==
    (IF "id" \in DOMAIN tok THEN {tok.id} ELSE {})
    \cup (IF "fileRef" \in DOMAIN tok THEN {tok.fileRef} ELSE {})
    \cup (IF "mainGroup" \in DOMAIN tok THEN {tok.mainGroup} ELSE {})
    \cup UNION {{e.id : e \in Range(EntriesOf(l))} : l \in ListsOf(tok)}

\* marker in content
Occurs(marker, content) == \E i \in 1..Len(content) : marker \in Names(content[i])

IdsIn(content) == UNION {Ids(content[i]) : i \in 1..Len(content)}

\* content.replace(old, new) for a text that is one token
RECURSIVE Replace(_, _, _)
Replace(content, old, new) ==
    IF content = <<>> THEN <<>>
    ELSE (IF Head(content) = old THEN new ELSE <<Head(content)>>)
         \o Replace(Tail(content), old, new)

\* re.search(r'/\* Begin <sec> section \*/.*?/\* End <sec> section \*/', content, re.DOTALL)
SectionFound(content, sec) ==
    \E i, j \in 1..Len(content) :
        i < j /\ content[i] = BeginSection(sec) /\ content[j] = EndSection(sec)

\* str.rstrip() of the text of a list
RECURSIVE rstrip(_)
rstrip(list) ==
    IF list # <<>> /\ list[Len(list)] = WS
    THEN rstrip(SubSeq(list, 1, Len(list) - 1))
    ELSE list

---------------------------------------------------------------------------
(* uuid.uuid4().hex[:24].upper(): the n identifiers of one run.  The       *)
(* random source is bounded to MaxSeeds outcomes per run; two runs that    *)
(* draw the same outcome generate the same identifiers (a collision).      *)

UUID(n) == "A" \o ToString(n)

generate_uuid(seed, i) == UUID(10 * seed + i)

Seeds == 1..MaxSeeds

---------------------------------------------------------------------------
(* add_build_phase.py *)

\* Mutant: the marker is looked for only when a shell-script section is found.
phase_already_exists_in_section(content) ==
    SectionFound(content, SecShell)
    /\ \E i \in 1..Len(content) : content[i].k = SecShell /\ MarkerFix \in Names(content[i])

\* 'Fix Binary Permissions' in content
phase_already_exists(content) == Occurs(MarkerFix, content)

\* Mutant: the record is named otherwise than the marker the check looks for.
new_phase_renamed(script_phase_ref) ==
    [k |-> SecShell, id |-> script_phase_ref, name |-> "Fix Permissions", files |-> <<WS>>]

\* the phase record  <ref> /* Fix Binary Permissions */ = { isa = PBXShellScriptBuildPhase; ... };
new_phase(script_phase_ref) ==
    [k |-> SecShell, id |-> script_phase_ref, name |-> MarkerFix, files |-> <<WS>>]

\* new_section: a whole PBXShellScriptBuildPhase section holding the phase record
new_section(script_phase_ref) ==
    <<BeginSection(SecShell), new_phase(script_phase_ref), EndSection(SecShell)>>

\* the text content.replace looks for when the section is absent: the
\* non-raw literal '/\* End PBXResourcesBuildPhase section */' keeps its backslash
create_section_anchor == EndSectionBackslash(SecResPhase)

\* lines 42-96: the section step
add_phase_record(content, script_phase_ref) ==
    IF ~SectionFound(content, SecShell)
    THEN IF \E i \in 1..Len(content) : content[i] = EndSection(SecResPhase)
         THEN Replace(content, create_section_anchor,
                      <<create_section_anchor>> \o new_section(script_phase_ref))
         ELSE content
    ELSE Replace(content, EndSection(SecShell),
                 <<new_phase(script_phase_ref), EndSection(SecShell)>>)

\* the records r'F8522F062E588C4300B30F2A /\* yt-dlp-MAX \*/ = {[^}]*buildPhases = \([^)]+\);' matches
IsTargetMatch(tok) ==
    /\ "buildPhases" \in DOMAIN tok
    /\ "id" \in DOMAIN tok /\ tok.id = TargetId
    /\ "name" \in DOMAIN tok /\ tok.name = TargetName
    /\ Len(tok.buildPhases) >= 1

\* new_phases + '\n\t\t\t);'
new_phases(build_phases, script_phase_ref) ==
    build_phases \o <<Comma, WS, Entry(script_phase_ref, MarkerFix), Comma, WS>>

\* lines 98-107: the target wiring step
wire_target(content, script_phase_ref) ==
    LET hits == {i \in 1..Len(content) : IsTargetMatch(content[i])} IN
    IF hits = {} THEN content
    ELSE LET target == content[Min(hits)] IN
         IF script_phase_ref \in Ids(target) THEN content
         ELSE Replace(content, target,
                      <<[target EXCEPT !.buildPhases =
                            new_phases(target.buildPhases, script_phase_ref)]>>)

\* lines 27-111: the text add_build_phase writes back
add_build_phase(content, script_phase_ref) ==
    wire_target(add_phase_record(content, script_phase_ref), script_phase_ref)

---------------------------------------------------------------------------
(* add_resources_to_xcode.py *)

\* 'Resources/bin' in content or 'Resources folder' in content
resources_already_added(content) ==
    Occurs(MarkerResBin, content) \/ Occurs(MarkerResFolder, content)

\* The six identifiers in the order lines 28-34 generate them.
resources_folder_ref(ids) == ids[1]
bin_folder_ref(ids) == ids[2]
ytdlp_ref(ids) == ids[3]
ffmpeg_ref(ids) == ids[4]
ffprobe_ref(ids) == ids[5]
resources_build_ref(ids) == ids[6]

FileReference(id, name, type) ==
    [k |-> SecFileRef, id |-> id, name |-> name, lastKnownFileType |-> type, path |-> name]

\* new_refs: the five file-reference records
new_refs(ids) ==
    << FileReference(resources_folder_ref(ids), "Resources", "folder"),
       FileReference(bin_folder_ref(ids), "bin", "folder"),
       FileReference(ytdlp_ref(ids), "yt-dlp", "compiled.mach-o.executable"),
       FileReference(ffmpeg_ref(ids), "ffmpeg", "compiled.mach-o.executable"),
       FileReference(ffprobe_ref(ids), "ffprobe", "compiled.mach-o.executable") >>

\* Mutant: the records are put after the end marker.
add_file_references_after(content, ids) ==
    Replace(content, EndSection(SecFileRef), <<EndSection(SecFileRef)>> \o new_refs(ids))

\* lines 52-54: insert before the end of the PBXFileReference section
add_file_references(content, ids) ==
    Replace(content, EndSection(SecFileRef), new_refs(ids) \o <<EndSection(SecFileRef)>>)

\* group(2) of r'(F8522EFE2E588C4300B30F2A /\* Project object \*/.*?mainGroup = )([A-F0-9]+)',
\* as a set: empty when the search fails
main_group_id(content) ==
    LET hasMainGroup(j) == "mainGroup" \in DOMAIN content[j]
        hits == {i \in 1..Len(content) :
                    /\ "id" \in DOMAIN content[i] /\ content[i].id = ProjectId
                    /\ "name" \in DOMAIN content[i] /\ content[i].name = ProjectName
                    /\ \E j \in i..Len(content) : hasMainGroup(j)}
    IN IF hits = {} THEN {}
       ELSE {content[Min({j \in Min(hits)..Len(content) : hasMainGroup(j)})].mainGroup}

\* the records f'{main_group_id} = {{[^}}]*children = \\(([^\\)]+)\\);' matches
IsMainGroupMatch(tok, id) ==
    /\ "children" \in DOMAIN tok
    /\ "id" \in DOMAIN tok /\ tok.id = id
    /\ "name" \notin DOMAIN tok
    /\ Len(tok.children) >= 1

\* new_children + '\n\t\t\t'
new_children(children, ids) ==
    rstrip(children) \o <<Comma, WS, Entry(resources_folder_ref(ids), "Resources"), Comma, WS>>

\* content.replace(f'children = ({children});', ...): every list with that text
replace_children(content, children, ids) ==
    [i \in 1..Len(content) |->
        IF "children" \in DOMAIN content[i] /\ content[i].children = children
        THEN [content[i] EXCEPT !.children = new_children(children, ids)]
        ELSE content[i]]

\* lines 56-73: the root-group children step
add_to_main_group(content, ids) ==
    LET mg == main_group_id(content) IN
    IF mg = {} THEN content
    ELSE LET id == CHOOSE g \in mg : TRUE
             hits == {i \in 1..Len(content) : IsMainGroupMatch(content[i], id)}
         IN IF hits = {} THEN content
            ELSE LET children == content[Min(hits)].children IN
                 IF resources_folder_ref(ids) \in {e.id : e \in Range(EntriesOf(children))}
                 THEN content
                 ELSE replace_children(content, children, ids)

Group(id, name, children) ==
    [k |-> SecGroup, id |-> id, name |-> name, children |-> children, path |-> name]

\* resources_group: the Resources group and the bin group
resources_group(ids) ==
    << Group(resources_folder_ref(ids), "Resources",
             <<WS, Entry(bin_folder_ref(ids), "bin"), Comma, WS>>),
       Group(bin_folder_ref(ids), "bin",
             <<WS, Entry(ytdlp_ref(ids), "yt-dlp"), Comma,
               WS, Entry(ffmpeg_ref(ids), "ffmpeg"), Comma,
               WS, Entry(ffprobe_ref(ids), "ffprobe"), Comma, WS>>) >>

\* Mutant: the step is nested under the root-group branch (one indent too deep).
add_group_definitions_nested(content, ids) ==
    IF main_group_id(content) # {} /\ SectionFound(content, SecGroup)
    THEN Replace(content, EndSection(SecGroup), resources_group(ids) \o <<EndSection(SecGroup)>>)
    ELSE content

\* lines 75-100: the group definitions step
add_group_definitions(content, ids) ==
    IF SectionFound(content, SecGroup)
    THEN Replace(content, EndSection(SecGroup), resources_group(ids) \o <<EndSection(SecGroup)>>)
    ELSE content

\* the records r'F8522F052E588C4300B30F2A /\* Resources \*/ = {[^}]*files = \([^)]*\);' matches
IsResourcesPhaseMatch(tok) ==
    /\ "files" \in DOMAIN tok
    /\ "id" \in DOMAIN tok /\ tok.id = ResPhaseId
    /\ "name" \in DOMAIN tok /\ tok.name = ResPhaseName

\* group(2) of the search of lines 103-106, as a set: empty when the search fails
resources_section(content) ==
    LET after(i) == {j \in (i + 1)..Len(content) : IsResourcesPhaseMatch(content[j])}
        hits == {i \in 1..Len(content) :
                    content[i] = BeginSection(SecResPhase) /\ after(i) # {}}
    IN IF hits = {} THEN {} ELSE {content[Min(after(Min(hits)))]}

\* resources_section.replace('files = (', f'files = (\n{new_build_file}')
new_files(files, ids) ==
    <<WS, Entry(resources_build_ref(ids), "Resources in Resources"), Comma>> \o files

\* lines 102-116: the resources-phase files step
add_to_resources_phase(content, ids) ==
    LET rs == resources_section(content) IN
    IF rs = {} THEN content
    ELSE LET section == CHOOSE r \in rs : TRUE IN
         IF resources_build_ref(ids) \in Ids(section) THEN content
         ELSE Replace(content, section,
                      <<[section EXCEPT !.files = new_files(section.files, ids)]>>)

\* new_build_file: the PBXBuildFile record
new_build_file(ids) ==
    [k |-> SecBuildFile, id |-> resources_build_ref(ids), name |-> "Resources in Resources",
     fileRef |-> resources_folder_ref(ids)]

\* lines 118-126: the build-file record step
add_build_file(content, ids) ==
    IF SectionFound(content, SecBuildFile)
    THEN Replace(content, EndSection(SecBuildFile),
                 <<new_build_file(ids), EndSection(SecBuildFile)>>)
    ELSE content

\* lines 36-42: the search the function returns on when it fails
file_ref_section_found(content) == SectionFound(content, SecFileRef)

\* lines 44-130: the text add_resources_to_project writes back
add_resources_to_project(content, ids) ==
    add_build_file(
        add_to_resources_phase(
            add_group_definitions(
                add_to_main_group(
                    add_file_references(content, ids), ids), ids), ids), ids)

---------------------------------------------------------------------------
(* The project files the scripts are run on *)

XcodeList(entries) ==
    IF entries = <<>> THEN <<WS>>
    ELSE [i \in 1..(3 * Len(entries) + 1) |->
            IF i % 3 = 1 THEN WS
            ELSE IF i % 3 = 2 THEN entries[(i + 1) \div 3] ELSE Comma]

\* the same entries, separated by commas, with no comma after the last one
PlainList(entries) ==
    [i \in 1..(3 * Len(entries) - 1) |->
        IF i % 3 = 1 THEN entries[(i + 2) \div 3]
        ELSE IF i % 3 = 2 THEN Comma ELSE WS]

MainGroupId == "F8522EFD2E588C4300B30F2A"

SamplePhases ==
    << Entry("F8522F032E588C4300B30F2A", "Sources"),
       Entry("F8522F042E588C4300B30F2A", "Frameworks"),
       Entry(ResPhaseId, ResPhaseName) >>

SampleChildren ==
    << Entry("F8522F092E588C4300B30F2A", "yt-dlp-MAX"),
       Entry("F8522F082E588C4300B30F2A", "Products") >>

SampleFileRef ==
    FileReference("F8522F072E588C4300B30F2A", "yt-dlp-MAX.app", "wrapper.application")

RootGroup == [k |-> SecGroup, id |-> MainGroupId, children |-> XcodeList(SampleChildren)]

ProjectObject ==
    [k |-> "PBXProject", id |-> ProjectId, name |-> ProjectName, mainGroup |-> MainGroupId]

NativeTarget(list) ==
    [k |-> "PBXNativeTarget", id |-> TargetId, name |-> TargetName, buildPhases |-> list]

ResourcesPhase ==
    [k |-> SecResPhase, id |-> ResPhaseId, name |-> ResPhaseName, files |-> XcodeList(<<>>)]

Opt(present, toks) == IF present THEN toks ELSE <<>>

\* A project file, section by section in the order Xcode writes them.
ProjectFile(f) ==
    Opt(f.marker # "none", <<Text(f.marker)>>)
    \o Opt(f.buildFile, <<BeginSection(SecBuildFile), EndSection(SecBuildFile)>>)
    \o Opt(f.fileRef, <<BeginSection(SecFileRef), SampleFileRef, EndSection(SecFileRef)>>)
    \o Opt(f.groupSec, <<BeginSection(SecGroup)>>)
    \o Opt(f.mainGroup, <<RootGroup>>)
    \o Opt(f.groupSec, <<EndSection(SecGroup)>>)
    \o Opt(f.target = "xcode", <<NativeTarget(XcodeList(SamplePhases))>>)
    \o Opt(f.target = "plain", <<NativeTarget(PlainList(SamplePhases))>>)
    \o Opt(f.mainGroup, <<ProjectObject>>)
    \o Opt(f.resPhase, <<BeginSection(SecResPhase), ResourcesPhase, EndSection(SecResPhase)>>)
    \o Opt(f.backslash, <<EndSectionBackslash(SecResPhase)>>)
    \o Opt(f.shell, <<BeginSection(SecShell), EndSection(SecShell)>>)

Features ==
    [marker : {"none", MarkerFix, MarkerResBin, MarkerResFolder},
     buildFile : BOOLEAN, fileRef : BOOLEAN, groupSec : BOOLEAN, mainGroup : BOOLEAN,
     resPhase : BOOLEAN, backslash : BOOLEAN, shell : BOOLEAN,
     target : {"absent", "xcode", "plain"}]

AllBundlerAnchors(f) == f.buildFile /\ f.fileRef /\ f.groupSec /\ f.mainGroup

\* every subset of the bundler's anchors, on a file with no marker
BundlerFamily ==
    {f \in Features : f.marker = "none" /\ ~f.backslash /\ ~f.shell /\ f.target = "xcode"}

\* every case of the injector's anchors, and each marker, on a file with the bundler's anchors
InjectorFamily ==
    {f \in Features : AllBundlerAnchors(f) /\ (f.backslash => f.resPhase)
                      /\ (f.marker \in {MarkerResBin, MarkerResFolder}
                            => f.resPhase /\ ~f.backslash /\ ~f.shell /\ f.target = "xcode")}

InputFiles == {File(ProjectFile(f)) : f \in BundlerFamily \cup InjectorFamily} \cup {NoFile}

\* a backup an earlier run left behind
StaleBackup == File(<<Text("stale")>>)

---------------------------------------------------------------------------
(* The scripts *)

CanRun == pc = "idle" /\ runs < MaxRuns

Finish(script, msg, ids) ==
    /\ last' = script
    /\ outcome' = msg
    /\ uuids' = ids
    /\ pc' = "idle"

\* add_build_phase.py lines 120-122: the path does not exist
InjectorMissing ==
    /\ CanRun
    /\ ~proj.exists
    /\ runs' = runs + 1
    /\ Finish("injector", "exit 1", <<>>)
    /\ UNCHANGED <<proj, backup, writes>>

\* add_build_phase lines 19-25: the marker is in the file
InjectorAlreadyExists ==
    /\ CanRun
    /\ proj.exists
    /\ phase_already_exists(proj.content)
    /\ runs' = runs + 1
    /\ Finish("injector", "already exists", <<>>)
    /\ UNCHANGED <<proj, backup, writes>>

\* add_build_phase lines 27-115
InjectorPatch ==
    /\ CanRun
    /\ proj.exists
    /\ ~phase_already_exists(proj.content)
    /\ \E seed \in Seeds :
        LET script_phase_ref == generate_uuid(seed, 1)
            script_build_ref == generate_uuid(seed, 2)
        IN /\ proj' = File(add_build_phase(proj.content, script_phase_ref))
           /\ Finish("injector", "successfully added", <<script_phase_ref, script_build_ref>>)
    /\ writes' = writes + 1
    /\ runs' = runs + 1
    /\ UNCHANGED backup

\* Mutant: the backup file is opened for writing before the path is checked.
BundlerMissing_BackupFirst ==
    /\ CanRun
    /\ ~proj.exists
    /\ backup' = File(<<>>)
    /\ runs' = runs + 1
    /\ Finish("bundler", "exit 1", <<>>)
    /\ UNCHANGED <<proj, writes>>

\* add_resources_to_xcode.py lines 142-144: the path does not exist
BundlerMissing ==
    /\ CanRun
    /\ ~proj.exists
    /\ runs' = runs + 1
    /\ Finish("bundler", "exit 1", <<>>)
    /\ UNCHANGED <<proj, backup, writes>>

\* Mutant: a backup that already exists is kept.
BundlerBackup_KeepExisting ==
    /\ CanRun
    /\ proj.exists
    /\ backup' = IF backup.exists THEN backup ELSE File(proj.content)
    /\ pc' = "add_resources"
    /\ runs' = runs + 1
    /\ UNCHANGED <<proj, last, outcome, writes, uuids>>

\* add_resources_to_xcode.py lines 146-152: back up the original file
BundlerBackup ==
    /\ CanRun
    /\ proj.exists
    /\ backup' = File(proj.content)
    /\ pc' = "add_resources"
    /\ runs' = runs + 1
    /\ UNCHANGED <<proj, last, outcome, writes, uuids>>

\* add_resources_to_project lines 19-25: a marker is in the file
AddResourcesAlready ==
    /\ pc = "add_resources"
    /\ resources_already_added(proj.content)
    /\ Finish("bundler", "already in the project", <<>>)
    /\ UNCHANGED <<proj, backup, writes, runs>>

SixUUIDs(seed) == [i \in 1..6 |-> generate_uuid(seed, i)]

\* add_resources_to_project lines 27-42: no PBXFileReference section
AddResourcesNoFileRef ==
    /\ pc = "add_resources"
    /\ ~resources_already_added(proj.content)
    /\ ~file_ref_section_found(proj.content)
    /\ \E seed \in Seeds :
        Finish("bundler", "error: no PBXFileReference section", SixUUIDs(seed))
    /\ UNCHANGED <<proj, backup, writes, runs>>

\* add_resources_to_project lines 27-137
AddResourcesPatch ==
    /\ pc = "add_resources"
    /\ ~resources_already_added(proj.content)
    /\ file_ref_section_found(proj.content)
    /\ \E seed \in Seeds :
        /\ proj' = File(add_resources_to_project(proj.content, SixUUIDs(seed)))
        /\ Finish("bundler", "successfully added", SixUUIDs(seed))
    /\ writes' = writes + 1
    /\ UNCHANGED <<backup, runs>>

Init ==
    /\ proj \in InputFiles
    /\ backup \in {NoFile, StaleBackup}
    /\ pc = "idle"
    /\ last = "none"
    /\ outcome = "none"
    /\ writes = 0
    /\ runs = 0
    /\ uuids = <<>>

Next ==
    \/ InjectorMissing
    \/ InjectorAlreadyExists
    \/ InjectorPatch
    \/ BundlerMissing
    \/ BundlerBackup
    \/ AddResourcesAlready
    \/ AddResourcesNoFileRef
    \/ AddResourcesPatch

Spec == Init /\ [][Next]_vars

---------------------------------------------------------------------------
(* Vocabulary of the claims *)

\* one whole run of the injector
InjectorRan == pc = "idle" /\ pc' = "idle" /\ runs' = runs + 1 /\ last' = "injector"

\* the bundler's backup, which starts its run
BundlerBackedUp == pc = "idle" /\ pc' = "add_resources"

\* the bundler's call of add_resources_to_project, which ends its run
AddResourcesRan == pc = "add_resources" /\ pc' = "idle"

\* no generated identifier was in the file before the run
FreshUUIDs == Range(uuids') \cap IdsIn(proj.content) = {}

Positions(content, tok) == {i \in 1..Len(content) : content[i] = tok}

NumTok(content, kind) == Cardinality({i \in 1..Len(content) : content[i].k = kind})

\* entries called name in the lists field of the records
NumNamed(content, field, name) ==
    SeqSum([i \in 1..Len(content) |->
        IF field \in DOMAIN content[i]
        THEN Len(SelectSeq(content[i][field], LAMBDA it : it.t = "entry" /\ it.name = name))
        ELSE 0])

\* the elements of a list: the entries between its commas, a comma after the last allowed
RECURSIVE Elements(_, _)
Elements(list, cur) ==
    IF list = <<>> THEN (IF cur = <<>> THEN <<>> ELSE <<cur>>)
    ELSE IF Head(list) = Comma THEN <<cur>> \o Elements(Tail(list), <<>>)
    ELSE IF Head(list) = WS THEN Elements(Tail(list), cur)
    ELSE Elements(Tail(list), Append(cur, Head(list).id))

\* the format Xcode writes: every entry on its own line and followed by a comma
IsXcodeList(list) == EntriesOf(list) # <<>> /\ list = XcodeList(EntriesOf(list))

Targets(content) == {i \in 1..Len(content) : IsTargetMatch(content[i])}

---------------------------------------------------------------------------
(* Claims *)

\* C1: after a bundler run that patched the file, the next bundler run finds a marker,
\* writes nothing and leaves the content as it was (whatever it generates being fresh).
C1_SecondBundlerRunIsNoOp ==
    [][(last = "bundler" /\ outcome = "successfully added" /\ AddResourcesRan /\ FreshUUIDs)
        => (proj' = proj /\ writes' = writes /\ outcome' = "already in the project")]_vars

\* C2: an injector run that follows an injector run leaves the content of the project
\* file as the first run left it.
C2_InjectorIdempotent ==
    [][(last = "injector" /\ InjectorRan) => proj' = proj]_vars

\* two injector runs and no other, the first of which added the phase record
C2_Witness ==
    /\ runs = 2 /\ last = "injector" /\ ~backup.exists
    /\ writes = 1 /\ outcome = "already exists"
    /\ NumTok(proj.content, SecShell) = 1

\* C3: on a file with no shell-script section markers, with the resources-phase end
\* marker and without the marker text, one injector run writes a file with exactly one
\* shell-script section, holding the new phase record, right after that end marker.
C3_CreatesExactlyOneSection ==
    [][(/\ InjectorRan /\ proj.exists
        /\ ~Occurs(MarkerFix, proj.content)
        /\ Positions(proj.content, BeginSection(SecShell)) = {}
        /\ Positions(proj.content, EndSection(SecShell)) = {}
        /\ Positions(proj.content, EndSection(SecResPhase)) # {})
        => (/\ writes' = writes + 1
            /\ Cardinality(Positions(proj'.content, BeginSection(SecShell))) = 1
            /\ Cardinality(Positions(proj'.content, EndSection(SecShell))) = 1
            /\ \E i \in 1..(Len(proj'.content) - 3) :
                /\ proj'.content[i] = EndSection(SecResPhase)
                /\ proj'.content[i + 1] = BeginSection(SecShell)
                /\ proj'.content[i + 2].k = SecShell
                /\ proj'.content[i + 2].name = MarkerFix
                /\ proj'.content[i + 3] = EndSection(SecShell))]_vars

\* C4: the bundler writes the backup from the project file before anything else, leaves
\* the project file alone while doing so, and add_resources_to_project, which starts
\* from a backup equal to the project file, never touches the backup: after the run the
\* backup holds what the project file held before it.
C4_BackupFidelity ==
    [][/\ BundlerBackedUp => (backup' = proj /\ proj' = proj /\ writes' = writes)
       /\ AddResourcesRan => (backup = proj /\ backup' = backup)]_vars

\* a bundler run that patched the file over an older backup
C4_Witness ==
    /\ pc = "idle" /\ last = "bundler" /\ outcome = "successfully added"
    /\ backup.exists /\ backup # proj /\ backup # StaleBackup

\* the anchor of each of the bundler's five insertion steps, in the file before the run
Anchor(step, content) ==
    CASE step = 1 -> \E i, j \in 1..Len(content) :
                        i < j /\ content[i] = BeginSection(SecFileRef)
                              /\ content[j] = EndSection(SecFileRef)
      [] step = 2 -> \E i, j \in 1..Len(content) :
                        /\ content[i].k = "PBXProject" /\ content[i].id = ProjectId
                        /\ content[j].k = SecGroup /\ "name" \notin DOMAIN content[j]
                        /\ content[j].id = content[i].mainGroup
      [] step = 3 -> \E i, j \in 1..Len(content) :
                        i < j /\ content[i] = BeginSection(SecGroup)
                              /\ content[j] = EndSection(SecGroup)
      [] step = 4 -> \E i, j \in 1..Len(content) :
                        i < j /\ content[i] = BeginSection(SecResPhase)
                              /\ content[j].k = SecResPhase /\ content[j].id = ResPhaseId
      [] step = 5 -> \E i, j \in 1..Len(content) :
                        i < j /\ content[i] = BeginSection(SecBuildFile)
                              /\ content[j] = EndSection(SecBuildFile)

\* what each step inserts, counted in a file
Inserted(step, content) ==
    CASE step = 1 -> NumTok(content, SecFileRef)
      [] step = 2 -> NumNamed(content, "children", "Resources")
      [] step = 3 -> NumTok(content, SecGroup)
      [] step = 4 -> NumNamed(content, "files", "Resources in Resources")
      [] step = 5 -> NumTok(content, SecBuildFile)

StepsFollowAnchors(steps) ==
    \A step \in steps :
        IF Anchor(step, proj.content)
        THEN Inserted(step, proj'.content) > Inserted(step, proj.content)
        ELSE Inserted(step, proj'.content) = Inserted(step, proj.content)

\* C5 as claimed: whatever anchors are missing, the bundler applies exactly the steps
\* whose anchor is present, writes the file and reports success.
C5_EveryStepGuardedAlone ==
    [][(AddResourcesRan /\ ~resources_already_added(proj.content) /\ FreshUUIDs)
        => (/\ StepsFollowAnchors(1..5)
            /\ writes' = writes + 1
            /\ outcome' = "successfully added")]_vars

\* C5 as amended: without the PBXFileReference section the run reports an error, applies
\* no step and writes nothing; with it the file-reference step is applied, each of the
\* other four steps is applied exactly when its own anchor is present, the file is
\* written and success is reported.
C5_StepsGuardedAfterFileRef ==
    [][(AddResourcesRan /\ ~resources_already_added(proj.content) /\ FreshUUIDs)
        => IF Anchor(1, proj.content)
           THEN /\ StepsFollowAnchors(1..5)
                /\ writes' = writes + 1
                /\ outcome' = "successfully added"
           ELSE /\ proj' = proj
                /\ writes' = writes
                /\ outcome' = "error: no PBXFileReference section"]_vars

\* a first run that applied the file-reference and build-file steps and, for want of
\* their anchors, neither of the two group steps
C5_Witness ==
    /\ runs = 1 /\ pc = "idle" /\ last = "bundler" /\ outcome = "successfully added"
    /\ NumTok(proj.content, SecFileRef) = 6
    /\ NumTok(proj.content, SecBuildFile) = 1
    /\ NumTok(proj.content, SecGroup) = 0
    /\ NumNamed(proj.content, "files", "Resources in Resources") = 1

IsFileRef(tok, name, type) ==
    /\ tok.k = SecFileRef /\ tok.name = name /\ tok.path = name
    /\ tok.lastKnownFileType = type

OnceEach(content, sec) ==
    /\ Cardinality(Positions(content, BeginSection(sec))) = 1
    /\ Cardinality(Positions(content, EndSection(sec))) = 1
    /\ \E i, j \in 1..Len(content) :
        i < j /\ content[i] = BeginSection(sec) /\ content[j] = EndSection(sec)

AllAnchorsOnce(content) ==
    /\ \A sec \in {SecFileRef, SecGroup, SecResPhase, SecBuildFile} : OnceEach(content, sec)
    /\ \A step \in 1..5 : Anchor(step, content)
    /\ Targets(content) # {}

\* C6: on a file with no marker, every section the bundler uses once and the hard-coded
\* records, one bundler run writes a file with five more file-reference records, which
\* are a Resources folder, a bin folder and the yt-dlp, ffmpeg and ffprobe executables,
\* placed right before the PBXFileReference end marker, each there once.
C6_FiveFileReferences ==
    [][(AddResourcesRan /\ ~resources_already_added(proj.content)
            /\ AllAnchorsOnce(proj.content))
        => (/\ writes' = writes + 1
            /\ NumTok(proj'.content, SecFileRef) = NumTok(proj.content, SecFileRef) + 5
            /\ \E e \in 6..Len(proj'.content) :
                /\ proj'.content[e] = EndSection(SecFileRef)
                /\ IsFileRef(proj'.content[e - 5], "Resources", "folder")
                /\ IsFileRef(proj'.content[e - 4], "bin", "folder")
                /\ IsFileRef(proj'.content[e - 3], "yt-dlp", "compiled.mach-o.executable")
                /\ IsFileRef(proj'.content[e - 2], "ffmpeg", "compiled.mach-o.executable")
                /\ IsFileRef(proj'.content[e - 1], "ffprobe", "compiled.mach-o.executable")
                /\ FreshUUIDs =>
                    \A d \in 1..5 :
                        Cardinality(Positions(proj'.content, proj'.content[e - d])) = 1)]_vars

\* a first bundler run on a file with every anchor
C6_Witness ==
    /\ runs = 1 /\ pc = "idle" /\ last = "bundler" /\ outcome = "successfully added"
    /\ AllAnchorsOnce(proj.content)
    /\ NumTok(proj.content, SecFileRef) = 6

\* C7: on a file that holds the text 'Fix Binary Permissions', an injector run writes
\* nothing, generates nothing, leaves the file as it is and reports 'already exists'.
C7_NoOpOnMarker ==
    [][(InjectorRan /\ proj.exists /\ Occurs(MarkerFix, proj.content))
        => (/\ proj' = proj /\ writes' = writes /\ backup' = backup
            /\ uuids' = <<>>
            /\ outcome' = "already exists")]_vars

\* an injector run on a file that came with the text, outside any record of a phase
C7_Witness ==
    /\ last = "injector" /\ outcome = "already exists" /\ writes = 0
    /\ proj.exists /\ Positions(proj.content, Text(MarkerFix)) # {}

\* C8: a run of either script that finds no project file ends with exit status 1 and
\* changes nothing: no project file and no backup is created or written.
C8_MissingFileExits ==
    [][(pc = "idle" /\ runs' = runs + 1 /\ ~proj.exists)
        => (/\ proj' = proj /\ backup' = backup /\ writes' = writes
            /\ pc' = "idle" /\ outcome' = "exit 1")]_vars

\* both scripts ran with no project file, next to an older backup
C8_Witness ==
    /\ runs = 2 /\ last = "bundler" /\ outcome = "exit 1"
    /\ ~proj.exists /\ backup = StaleBackup

\* C9: when the injector patches a file whose target record has a non-empty buildPhases
\* list in Xcode's format, the list it writes holds the entries it held, in their order,
\* then the new phase identifier, and no empty element; with no target record no
\* buildPhases list changes.
C9_PhaseAppendedToTarget ==
    [][(InjectorRan /\ outcome' = "successfully added" /\ FreshUUIDs)
        => IF Targets(proj.content) = {}
           THEN \A i \in 1..Len(proj.content) :
                    "buildPhases" \in DOMAIN proj.content[i]
                        => proj.content[i] \in Range(proj'.content)
           ELSE \A i \in Targets(proj.content) :
                    IsXcodeList(proj.content[i].buildPhases)
                        => \E j \in Targets(proj'.content) :
                            Elements(proj'.content[j].buildPhases, <<>>)
                              = Elements(proj.content[i].buildPhases, <<>>)
                                    \o << <<uuids'[1]>> >>]_vars

\* C10: after a bundler run on a file with the file-reference and group sections, with
\* six distinct fresh identifiers, each of them is the key of at most one record.
C10_OneRecordPerIdentifier ==
    [][(/\ AddResourcesRan /\ outcome' = "successfully added"
        /\ Anchor(1, proj.content) /\ Anchor(3, proj.content)
        /\ FreshUUIDs /\ Cardinality(Range(uuids')) = 6)
        => \A u \in Range(uuids') :
            Cardinality({i \in 1..Len(proj'.content) :
                "id" \in DOMAIN proj'.content[i] /\ proj'.content[i].id = u}) <= 1]_vars

====
